---- MODULE Spec2Model ----
(***************************************************************************)
(* goblineer-updater: the auction aggregation of                           *)
(* GoblineerUpdater.parse_auctions (src/src/update.py), the orchestration  *)
(* of main (src/src/main.py) and the item-name lookup of the legacy        *)
(* updater (src/update.py).                                                *)
(*                                                                         *)
(* Python values are represented as follows.                               *)
(*   - an optional dict entry is a sequence of length <= 1: None (<<>>)    *)
(*     when the key is absent, Some(v) (<<v>>) when it is present;         *)
(*   - a dict is a function; its insertion order, where the code iterates  *)
(*     over it, is kept in a sequence of keys beside it;                   *)
(*   - a tuple or list is a sequence;                                      *)
(*   - the float n / 10000 is the fraction <<num, den>> in lowest terms    *)
(*     (exact for every price below 2^53);                                 *)
(*   - where the type of a value matters (str(x), int and str dict keys)   *)
(*     the value carries its type: <<"int", n>>, <<"float", q>>,           *)
(*     <<"str", v>> (the text of the value v).                             *)
(***************************************************************************)
EXTENDS Integers, Sequences, FiniteSets, TLC

\* Longest listing sequence the data source delivers.
MaxLen == 2
\* Longest item list and longest saved items file of the legacy updater.
MaxItems == 2
\* The divisor of update.py line 181.
CurrencyScale == 10000

None == <<>>
Some(v) == <<v>>
Has(opt) == Len(opt) = 1
Get(opt) == opt[1]

EmptyDict == [x \in {} |-> 0]

SeqsUpTo(S, n) == UNION {[1..k -> S] : k \in 0..n}

Range(s) == {s[n] : n \in 1..Len(s)}

NoDupSeqsUpTo(S, n) == {s \in SeqsUpTo(S, n) : Cardinality(Range(s)) = Len(s)}

----------------------------------------------------------------------------
(* Listings                                                                *)

\* (buyout, unit_price) of a listing: both absent, both zero, one of them,
\* both, and a zero buyout beside a unit price.
PriceFields ==
    { <<None, None>>, <<Some(0), Some(0)>>, <<Some(100000), None>>,
      <<None, Some(8000)>>, <<Some(100000), Some(8000)>>, <<Some(0), Some(8000)>> }

\* auc['item']: without an id, without bonus_lists, with an empty one, with
\* the same bonus ids in two orders, and another item.
ItemFields ==
    { [id |-> None, bonus_lists |-> None],
      [id |-> Some(100), bonus_lists |-> None],
      [id |-> Some(100), bonus_lists |-> Some(<<>>)],
      [id |-> Some(100), bonus_lists |-> Some(<<1, 2>>)],
      [id |-> Some(100), bonus_lists |-> Some(<<2, 1>>)],
      [id |-> Some(101), bonus_lists |-> None] }

Quantities == {1, 5}

Listings ==
    { [buyout |-> p[1], unit_price |-> p[2], item |-> it, quantity |-> q] :
        p \in PriceFields, it \in ItemFields, q \in Quantities }

\* The listings a run of main fetches: fewer shapes, and a stack of 0 units,
\* which the estimator rejects.
MainPriceFields == { <<Some(0), Some(0)>>, <<Some(100000), None>>, <<None, Some(8000)>> }

MainItemFields ==
    { [id |-> None, bonus_lists |-> None],
      [id |-> Some(100), bonus_lists |-> None],
      [id |-> Some(100), bonus_lists |-> Some(<<1, 2>>)] }

MainQuantities == {0, 1, 5}

MainListings ==
    { [buyout |-> p[1], unit_price |-> p[2], item |-> it, quantity |-> q] :
        p \in MainPriceFields, it \in MainItemFields, q \in MainQuantities }

\* What get_auction_data hands over: a list, or a value that is no list.
AList(s) == [is_list |-> TRUE, items |-> s]
NotAList == [is_list |-> FALSE, items |-> <<>>]

----------------------------------------------------------------------------
(* State                                                                   *)

VARIABLES
    pc,               \* position of the run
    error,            \* the exception that ended the run, or "none"
    auction_data,     \* main: auction_data / parse_auctions: auctions
    i,                \* parse_auctions: listings consumed by the loop
    parsed_auctions,  \* parse_auctions: variant key -> (unit price -> quantity)
    key_order,        \* insertion order of parsed_auctions' keys
    placed,           \* per listing consumed: the bucket lines 195-198 wrote, or None
    j,                \* main: variants consumed by the marketvalue loop
    calls,            \* main: the arguments of every marketvalue call so far
    marketvalues,     \* main: the records appended so far
    file,             \* data.lua: whether main opened it, and what it wrote
    items,            \* legacy: the item ids passed to get_item_names
    saved_items,      \* legacy: the contents of items.json
    item_names_dict,  \* legacy get_item_names
    item_names_list,  \* legacy get_item_names
    n,                \* legacy: items consumed by the loop of get_item_names
    downloads,        \* legacy: the items whose name was downloaded
    m                 \* legacy: items consumed by the loop of marketvalue_all

vars == << pc, error, auction_data, i, parsed_auctions, key_order, placed, j, calls,
           marketvalues, file, items, saved_items, item_names_dict, item_names_list,
           n, downloads, m >>

parseVars == << i, parsed_auctions, key_order, placed >>
mainVars == << j, calls, marketvalues, file >>
legacyVars == << items, saved_items, item_names_dict, item_names_list, n, downloads, m >>

----------------------------------------------------------------------------
(* parse_auctions                                                          *)

RECURSIVE GCD(_, _)
GCD(a, b) == IF b = 0 THEN a ELSE GCD(b, a % b)

\* a / b as a float: the fraction in lowest terms.
TrueDiv(a, b) == << a \div GCD(a, b), b \div GCD(a, b) >>

\* update.py 172-178: the price of a listing, None when it is skipped.
BuyPrice_UnitFirst(auc) ==
    IF Has(auc.unit_price) /\ Get(auc.unit_price) # 0 THEN auc.unit_price
    ELSE IF Has(auc.buyout) /\ Get(auc.buyout) # 0 THEN auc.buyout
    ELSE None

BuyPrice(auc) ==
    IF Has(auc.buyout) /\ Get(auc.buyout) # 0 THEN auc.buyout
    ELSE IF Has(auc.unit_price) /\ Get(auc.unit_price) # 0 THEN auc.unit_price
    ELSE None

\* update.py 181
UnitPrice(buy_price) == TrueDiv(buy_price, CurrencyScale)

\* update.py 184-191: the item id followed by the bonus ids in the order given.
DictKey_Sorted(auc) ==
    <<Get(auc.item.id)>> \o
        (IF Has(auc.item.bonus_lists) THEN SortSeq(Get(auc.item.bonus_lists), LAMBDA a, b : a < b) ELSE <<>>)

DictKey(auc) ==
    <<Get(auc.item.id)>> \o
        (IF Has(auc.item.bonus_lists) THEN Get(auc.item.bonus_lists) ELSE <<>>)

DictSet(d, k, v) == IF k \in DOMAIN d THEN [d EXCEPT ![k] = v] ELSE d @@ (k :> v)

\* update.py 195-198 on the defaultdict of line 169.
AddQuantity_Overwrite(pa, dict_key, unit_price, quantity) ==
    LET hist == IF dict_key \in DOMAIN pa THEN pa[dict_key] ELSE EmptyDict
    IN DictSet(pa, dict_key, DictSet(hist, unit_price, quantity))

AddQuantity_KeepFirst(pa, dict_key, unit_price, quantity) ==
    LET hist == IF dict_key \in DOMAIN pa THEN pa[dict_key] ELSE EmptyDict
    IN DictSet(pa, dict_key,
               IF unit_price \in DOMAIN hist THEN hist ELSE hist @@ (unit_price :> quantity))

AddQuantity(pa, dict_key, unit_price, quantity) ==
    LET hist == IF dict_key \in DOMAIN pa THEN pa[dict_key] ELSE EmptyDict
    IN DictSet(pa, dict_key,
               IF unit_price \in DOMAIN hist
               THEN [hist EXCEPT ![unit_price] = @ + quantity]
               ELSE hist @@ (unit_price :> quantity))

\* update.py 184: auc['item']['id'] of a listing that was not skipped.
RaisesKeyError(auc) == Has(BuyPrice(auc)) /\ ~Has(auc.item.id)

\* One iteration of the loop of update.py 170-198 that does not raise.
ParseListing_TouchFirst(pa, auc) ==
    IF ~Has(auc.item.id) THEN pa
    ELSE IF ~Has(BuyPrice(auc))
         THEN (IF DictKey(auc) \in DOMAIN pa THEN pa ELSE pa @@ (DictKey(auc) :> EmptyDict))
         ELSE AddQuantity(pa, DictKey(auc), UnitPrice(Get(BuyPrice(auc))), auc.quantity)

ParseListing(pa, auc) ==
    IF ~Has(BuyPrice(auc)) THEN pa
    ELSE AddQuantity(pa, DictKey(auc), UnitPrice(Get(BuyPrice(auc))), auc.quantity)

\* The bucket that iteration wrote.
PlacedBy(auc) ==
    IF ~Has(BuyPrice(auc)) THEN None
    ELSE Some([key |-> DictKey(auc), price |-> UnitPrice(Get(BuyPrice(auc)))])

\* The whole loop on a sequence none of whose listings raises.
RECURSIVE ParseAll(_, _)
ParseAll(pa, aucs) ==
    IF aucs = <<>> THEN pa ELSE ParseAll(ParseListing(pa, Head(aucs)), Tail(aucs))

\* update.py 165-166
ParseTypeError ==
    /\ pc = "parse"
    /\ ~auction_data.is_list
    /\ pc' = "failed"
    /\ error' = "TypeError"
    /\ UNCHANGED << auction_data, parseVars, mainVars, legacyVars >>

\* update.py 170-198, an iteration that completes
ParseIter ==
    /\ pc = "parse"
    /\ auction_data.is_list
    /\ i < Len(auction_data.items)
    /\ LET auc == auction_data.items[i + 1]
           pa == ParseListing(parsed_auctions, auc)
       IN /\ ~RaisesKeyError(auc)
          /\ parsed_auctions' = pa
          /\ key_order' = key_order \o
                 [k \in 1..Cardinality(DOMAIN pa \ DOMAIN parsed_auctions) |->
                     CHOOSE key \in DOMAIN pa \ DOMAIN parsed_auctions : TRUE]
          /\ placed' = Append(placed, PlacedBy(auc))
    /\ i' = i + 1
    /\ UNCHANGED << pc, error, auction_data, mainVars, legacyVars >>

\* update.py 184, the iteration that raises: the mapping built so far is lost
ParseKeyError ==
    /\ pc = "parse"
    /\ auction_data.is_list
    /\ i < Len(auction_data.items)
    /\ RaisesKeyError(auction_data.items[i + 1])
    /\ pc' = "failed"
    /\ error' = "KeyError"
    /\ parsed_auctions' = EmptyDict
    /\ key_order' = <<>>
    /\ UNCHANGED << auction_data, i, placed, mainVars, legacyVars >>

\* update.py 200
ParseReturn ==
    /\ pc = "parse"
    /\ auction_data.is_list
    /\ i = Len(auction_data.items)
    /\ pc' = "returned"
    /\ UNCHANGED << error, auction_data, parseVars, mainVars, legacyVars >>

----------------------------------------------------------------------------
(* main                                                                    *)

\* main.py 30, update.py 76-148: the fetch delivers the auctions
Fetch ==
    /\ pc = "fetch"
    /\ \E data \in {AList(s) : s \in SeqsUpTo(MainListings, MaxLen)} \cup {NotAList} :
           auction_data' = data
    /\ pc' = "parse"
    /\ UNCHANGED << error, parseVars, mainVars, legacyVars >>

\* update.py 105, 126, 136, 143, 145: the fetch raises
FetchFail ==
    /\ pc = "fetch"
    /\ pc' = "failed"
    /\ \E e \in {"TypeError", "ConnectionError", "ValueError"} : error' = e
    /\ UNCHANGED << auction_data, parseVars, mainVars, legacyVars >>

PyStr(x) == IF x[1] = "str" THEN x ELSE <<"str", x>>

RECURSIVE SumOf(_, _)
SumOf(f, S) ==
    IF S = {} THEN 0 ELSE LET x == CHOOSE y \in S : TRUE IN f[x] + SumOf(f, S \ {x})

\* p < q for two fractions of positive denominator
FracLess(p, q) == p[1] * q[2] < q[1] * p[2]

MinKey(hist) == CHOOSE p \in DOMAIN hist : \A q \in DOMAIN hist : ~FracLess(q, p)

\* marketvalue (src/marketvalue.py is not part of the sources): what it rejects
EstimatorRaises(hist) ==
    \/ DOMAIN hist = {}
    \/ \E p \in DOMAIN hist : hist[p] <= 0 \/ p[1] <= 0

\* marketvalue: total quantity, minimum price, and the estimate, a value that is
\* a function of the histogram alone
Marketvalue(hist) ==
    [ marketvalue |-> <<"float", <<"estimate", hist>>>>,
      quantity |-> <<"int", SumOf(hist, DOMAIN hist)>>,
      MIN |-> <<"float", MinKey(hist)>> ]

\* main.py 42-48
MakeRecord_KeepsItemId(item_ids, marketvalue_data) ==
    [ item |-> item_ids[1],
      bonusIds |-> item_ids,
      marketvalue |-> PyStr(marketvalue_data.marketvalue),
      quantity |-> PyStr(marketvalue_data.quantity),
      MIN |-> PyStr(marketvalue_data.MIN) ]

MakeRecord(item_ids, marketvalue_data) ==
    [ item |-> item_ids[1],
      bonusIds |-> Tail(item_ids),
      marketvalue |-> PyStr(marketvalue_data.marketvalue),
      quantity |-> PyStr(marketvalue_data.quantity),
      MIN |-> PyStr(marketvalue_data.MIN) ]

\* main.py 40-48, an iteration that completes
CalcIter_Thrice ==
    /\ pc = "returned"
    /\ j < Len(key_order)
    /\ LET item_ids == key_order[j + 1]
           item_data == parsed_auctions[item_ids]
           call == [key |-> item_ids, histogram |-> item_data]
       IN /\ ~EstimatorRaises(item_data)
          /\ calls' = calls \o << call, call, call >>
          /\ marketvalues' = Append(marketvalues, MakeRecord(item_ids, Marketvalue(item_data)))
    /\ j' = j + 1
    /\ UNCHANGED << pc, error, auction_data, parseVars, file, legacyVars >>

CalcIter ==
    /\ pc = "returned"
    /\ j < Len(key_order)
    /\ LET item_ids == key_order[j + 1]
           item_data == parsed_auctions[item_ids]
       IN /\ ~EstimatorRaises(item_data)
          /\ calls' = Append(calls, [key |-> item_ids, histogram |-> item_data])
          /\ marketvalues' = Append(marketvalues, MakeRecord(item_ids, Marketvalue(item_data)))
    /\ j' = j + 1
    /\ UNCHANGED << pc, error, auction_data, parseVars, file, legacyVars >>

\* main.py 41, the call that raises: main ends there
CalcRaise_FlushPartial ==
    /\ pc = "returned"
    /\ j < Len(key_order)
    /\ LET item_ids == key_order[j + 1]
           item_data == parsed_auctions[item_ids]
       IN /\ EstimatorRaises(item_data)
          /\ calls' = Append(calls, [key |-> item_ids, histogram |-> item_data])
    /\ pc' = "failed"
    /\ error' = "EstimatorError"
    /\ file' = [written |-> TRUE, content |-> marketvalues]
    /\ UNCHANGED << auction_data, parseVars, j, marketvalues, legacyVars >>

CalcRaise ==
    /\ pc = "returned"
    /\ j < Len(key_order)
    /\ LET item_ids == key_order[j + 1]
           item_data == parsed_auctions[item_ids]
       IN /\ EstimatorRaises(item_data)
          /\ calls' = Append(calls, [key |-> item_ids, histogram |-> item_data])
    /\ pc' = "failed"
    /\ error' = "EstimatorError"
    /\ UNCHANGED << auction_data, parseVars, j, marketvalues, file, legacyVars >>

\* main.py 53-57: the file is opened and the whole list written
WriteFile ==
    /\ pc = "returned"
    /\ j = Len(key_order)
    /\ file' = [written |-> TRUE, content |-> marketvalues]
    /\ pc' = "done"
    /\ UNCHANGED << error, auction_data, parseVars, j, calls, marketvalues, legacyVars >>

\* main.py 53-55: path.join or open raises
OpenFail ==
    /\ pc = "returned"
    /\ j = Len(key_order)
    /\ pc' = "failed"
    /\ \E e \in {"TypeError", "OSError"} : error' = e
    /\ UNCHANGED << auction_data, parseVars, mainVars, legacyVars >>

----------------------------------------------------------------------------
(* The legacy updater (src/update.py)                                      *)

\* Item ids as the auctions file may hold them: JSON numbers, or their text.
LegacyItemIds == { <<"int", 1>>, <<"int", 2>>, <<"str", <<"int", 1>>>> }

\* downloader.get_item_name: the name of the item of that number
NameOf(item) == <<"name", IF item[1] = "str" THEN item[2][2] ELSE item[2]>>

SavedEntry(item) == [item |-> item, name |-> NameOf(item)]

\* update.py 46-47
RECURSIVE DictOfSaved(_, _)
DictOfSaved(d, entries) ==
    IF entries = <<>> THEN d
    ELSE DictOfSaved(DictSet(d, Head(entries).item, Head(entries).name), Tail(entries))

\* update.py 40-47
LoadSaved ==
    /\ pc = "names_load"
    /\ item_names_list' = saved_items
    /\ item_names_dict' = DictOfSaved(EmptyDict, saved_items)
    /\ pc' = "names_loop"
    /\ UNCHANGED << error, auction_data, parseVars, mainVars, items, saved_items, n,
                    downloads, m >>

\* update.py 51-58, an item whose str() is no key of the dictionary
NameDownload ==
    /\ pc = "names_loop"
    /\ n < Len(items)
    /\ LET item == items[n + 1]
       IN /\ PyStr(item) \notin DOMAIN item_names_dict
          /\ item_names_dict' = DictSet(item_names_dict, item, NameOf(item))
          /\ item_names_list' = Append(item_names_list, SavedEntry(item))
          /\ downloads' = Append(downloads, item)
    /\ n' = n + 1
    /\ UNCHANGED << pc, error, auction_data, parseVars, mainVars, items, saved_items, m >>

\* update.py 51-53, an item whose str() is a key of the dictionary
NameKnown ==
    /\ pc = "names_loop"
    /\ n < Len(items)
    /\ PyStr(items[n + 1]) \in DOMAIN item_names_dict
    /\ n' = n + 1
    /\ UNCHANGED << pc, error, auction_data, parseVars, mainVars, items, saved_items,
                    item_names_dict, item_names_list, downloads, m >>

\* update.py 60-63
NamesReturn ==
    /\ pc = "names_loop"
    /\ n = Len(items)
    /\ saved_items' = item_names_list
    /\ pc' = "names_returned"
    /\ UNCHANGED << error, auction_data, parseVars, mainVars, items, item_names_dict,
                    item_names_list, n, downloads, m >>

\* update.py 30-33, item_names[str(items[i])] finds the name
LookupName ==
    /\ pc = "names_returned"
    /\ m < Len(items)
    /\ PyStr(items[m + 1]) \in DOMAIN item_names_dict
    /\ m' = m + 1
    /\ UNCHANGED << pc, error, auction_data, parseVars, mainVars, items, saved_items,
                    item_names_dict, item_names_list, n, downloads >>

\* update.py 31, item_names[str(items[i])] raises
LookupKeyError ==
    /\ pc = "names_returned"
    /\ m < Len(items)
    /\ PyStr(items[m + 1]) \notin DOMAIN item_names_dict
    /\ pc' = "failed"
    /\ error' = "KeyError"
    /\ UNCHANGED << auction_data, parseVars, mainVars, legacyVars >>

\* update.py 35
LegacyReturn ==
    /\ pc = "names_returned"
    /\ m = Len(items)
    /\ pc' = "done"
    /\ UNCHANGED << error, auction_data, parseVars, mainVars, legacyVars >>

----------------------------------------------------------------------------
(* Specifications                                                          *)

InitParse ==
    /\ error = "none"
    /\ i = 0
    /\ parsed_auctions = EmptyDict
    /\ key_order = <<>>
    /\ placed = <<>>

InitMainVars ==
    /\ j = 0
    /\ calls = <<>>
    /\ marketvalues = <<>>
    /\ file = [written |-> FALSE, content |-> <<>>]

InitLegacyIdle ==
    /\ items = <<>>
    /\ saved_items = <<>>
    /\ item_names_dict = EmptyDict
    /\ item_names_list = <<>>
    /\ n = 0
    /\ downloads = <<>>
    /\ m = 0

\* parse_auctions called on a list of listings, or on a value that is no list
Init ==
    /\ pc = "parse"
    /\ auction_data \in {AList(s) : s \in SeqsUpTo(Listings, MaxLen)} \cup {NotAList}
    /\ InitParse
    /\ InitMainVars
    /\ InitLegacyIdle

Next == ParseTypeError \/ ParseIter \/ ParseKeyError \/ ParseReturn

Spec == Init /\ [][Next]_vars

\* a run of main; self.data is None until the fetch
InitMain ==
    /\ pc = "fetch"
    /\ auction_data = NotAList
    /\ InitParse
    /\ InitMainVars
    /\ InitLegacyIdle

NextMain ==
    \/ Fetch \/ FetchFail
    \/ ParseTypeError \/ ParseIter \/ ParseKeyError \/ ParseReturn
    \/ CalcIter \/ CalcRaise \/ WriteFile \/ OpenFail

SpecMain == InitMain /\ [][NextMain]_vars

\* marketvalue_all of the legacy updater on the keys of auctions_dict, with an
\* items.json written by earlier runs
InitLegacy ==
    /\ pc = "names_load"
    /\ auction_data = NotAList
    /\ InitParse
    /\ InitMainVars
    /\ items \in NoDupSeqsUpTo(LegacyItemIds, MaxItems)
    /\ saved_items \in {[k \in 1..Len(s) |-> SavedEntry(s[k])] :
                           s \in NoDupSeqsUpTo(LegacyItemIds, MaxItems)}
    /\ item_names_dict = EmptyDict
    /\ item_names_list = <<>>
    /\ n = 0
    /\ downloads = <<>>
    /\ m = 0

NextLegacy ==
    \/ LoadSaved \/ NameDownload \/ NameKnown \/ NamesReturn
    \/ LookupName \/ LookupKeyError \/ LegacyReturn

SpecLegacy == InitLegacy /\ [][NextLegacy]_vars

----------------------------------------------------------------------------
(* Properties                                                              *)

\* The listings the loop of parse_auctions has consumed.
Consumed == SubSeq(auction_data.items, 1, i)

\* A listing has a usable price: a nonzero buyout or a nonzero unit_price.
Usable(auc) ==
    \/ Has(auc.buyout) /\ Get(auc.buyout) # 0
    \/ Has(auc.unit_price) /\ Get(auc.unit_price) # 0

BonusOrEmpty(auc) == IF Has(auc.item.bonus_lists) THEN Get(auc.item.bonus_lists) ELSE <<>>

\* The variant of a listing that has an item id: (item id, bonus ids in order).
VariantKey(auc) == <<Get(auc.item.id)>> \o BonusOrEmpty(auc)

RECURSIVE SumQuantity(_)
SumQuantity(aucs) ==
    IF aucs = <<>> THEN 0 ELSE Head(aucs).quantity + SumQuantity(Tail(aucs))

HistTotal(v) ==
    IF v \in DOMAIN parsed_auctions
    THEN SumOf(parsed_auctions[v], DOMAIN parsed_auctions[v])
    ELSE 0

UsableOfVariant(v) ==
    SelectSeq(Consumed, LAMBDA a : Usable(a) /\ Has(a.item.id) /\ VariantKey(a) = v)

Running == pc \in {"parse", "returned"}

\* the price p is amount / CurrencyScale
PriceIs(p, amount) == p[2] > 0 /\ p[1] * CurrencyScale = amount * p[2]

\* C1: after every iteration and in the returned mapping, for every variant v
\* the quantities of v's histogram sum to the quantities of the consumed
\* listings of variant v that have a usable price; a listing with a usable
\* price was added to one bucket of the mapping, one without to none.
C1_QuantityConserved ==
    Running =>
        /\ \A v \in DOMAIN parsed_auctions \cup
                    {VariantKey(Consumed[k]) :
                        k \in {x \in 1..i : Has(Consumed[x].item.id)}} :
               HistTotal(v) = SumQuantity(UsableOfVariant(v))
        /\ Len(placed) = i
        /\ \A k \in 1..i :
               /\ Usable(Consumed[k]) <=> Has(placed[k])
               /\ Has(placed[k]) =>
                      /\ Get(placed[k]).key \in DOMAIN parsed_auctions
                      /\ Get(placed[k]).price \in DOMAIN parsed_auctions[Get(placed[k]).key]

\* C1 witness: the call returned a histogram in which two listings of one
\* variant with usable prices were summed, beside nothing else.
C1_Witness ==
    /\ pc = "returned"
    /\ Len(auction_data.items) = 2
    /\ \A k \in 1..2 : Usable(auction_data.items[k]) /\ Has(auction_data.items[k].item.id)
    /\ VariantKey(auction_data.items[1]) = VariantKey(auction_data.items[2])
    /\ auction_data.items[1].quantity # auction_data.items[2].quantity
    /\ HistTotal(VariantKey(auction_data.items[1])) = 6

\* C2: a listing with a nonzero buyout goes to the bucket buyout / 10000, also
\* when it has a unit_price; otherwise one with a nonzero unit_price goes to
\* unit_price / 10000; otherwise it is skipped. The quantity plays no part.
C2_BucketRule ==
    \A k \in 1..Len(placed) :
        LET auc == auction_data.items[k]
        IN IF Has(auc.buyout) /\ Get(auc.buyout) # 0
           THEN Has(placed[k]) /\ PriceIs(Get(placed[k]).price, Get(auc.buyout))
           ELSE IF Has(auc.unit_price) /\ Get(auc.unit_price) # 0
                THEN Has(placed[k]) /\ PriceIs(Get(placed[k]).price, Get(auc.unit_price))
                ELSE placed[k] = None

\* C2 witness: a stack of 5 with both a buyout and a unit_price was put in the
\* bucket of its buyout, and the mapping holds that bucket with quantity 5.
C2_Witness ==
    /\ pc = "returned"
    /\ \E k \in 1..Len(placed) :
           LET auc == auction_data.items[k]
           IN /\ auc.buyout = Some(100000)
              /\ auc.unit_price = Some(8000)
              /\ auc.quantity = 5
              /\ Has(placed[k])
              /\ Get(placed[k]).price = <<10, 1>>
              /\ parsed_auctions[Get(placed[k]).key][<<10, 1>>] = 5

\* C3: after every iteration and in the returned mapping every variant key maps
\* to a non-empty histogram, and a variant none of whose consumed listings has
\* a usable price is no key of the mapping.
C3_NoEmptyHistogram ==
    /\ \A v \in DOMAIN parsed_auctions : DOMAIN parsed_auctions[v] # {}
    /\ Running =>
           \A k \in 1..i :
               (Has(Consumed[k].item.id) /\ UsableOfVariant(VariantKey(Consumed[k])) = <<>>)
                   => VariantKey(Consumed[k]) \notin DOMAIN parsed_auctions

\* C3 witness: the call returned a non-empty mapping after skipping a listing
\* of a variant that has no other listing.
C3_Witness ==
    /\ pc = "returned"
    /\ DOMAIN parsed_auctions # {}
    /\ \E k \in 1..i :
           /\ ~Usable(Consumed[k])
           /\ Has(Consumed[k].item.id)
           /\ VariantKey(Consumed[k]) \notin DOMAIN parsed_auctions

BothPlaced(a, b) == Has(placed[a]) /\ Has(placed[b])

\* C4 as stated: two listings with usable prices are added to the same histogram
\* if and only if they have the same item id and the same bonus_lists entry,
\* a listing without bonus_lists differing from every listing with one.
C4_Original ==
    \A a, b \in 1..Len(placed) :
        BothPlaced(a, b) =>
            (Get(placed[a]).key = Get(placed[b]).key
                <=> /\ auction_data.items[a].item.id = auction_data.items[b].item.id
                    /\ auction_data.items[a].item.bonus_lists
                           = auction_data.items[b].item.bonus_lists)

\* C4 amended: two listings with usable prices are added to the same histogram
\* if and only if they have the same item id and the same bonus ids in the same
\* order, an absent bonus_lists counting as the empty list; the histogram they
\* were added to is a key of the mapping while the call has not failed.
C4_SameVariantIffSameKey ==
    \A a, b \in 1..Len(placed) :
        BothPlaced(a, b) =>
            /\ Get(placed[a]).key = Get(placed[b]).key
                   <=> /\ auction_data.items[a].item.id = auction_data.items[b].item.id
                       /\ BonusOrEmpty(auction_data.items[a]) = BonusOrEmpty(auction_data.items[b])
            /\ Running => Get(placed[a]).key \in DOMAIN parsed_auctions

\* C4 witness: listings of one item with bonus lists [1,2] and [2,1] were added
\* to two histograms.
C4_Witness ==
    /\ pc = "returned"
    /\ Len(placed) = 2
    /\ BothPlaced(1, 2)
    /\ auction_data.items[1].item = [id |-> Some(100), bonus_lists |-> Some(<<1, 2>>)]
    /\ auction_data.items[2].item = [id |-> Some(100), bonus_lists |-> Some(<<2, 1>>)]
    /\ Cardinality(DOMAIN parsed_auctions) = 2

IndexPermutations(k) == {f \in [1..k -> 1..k] : \A a, b \in 1..k : a # b => f[a] # f[b]}

\* C5: the mapping parse_auctions returned for a list equals the mapping the
\* loop builds from every permutation of that list.
C5_OrderIndependent ==
    pc = "returned" =>
        \A f \in IndexPermutations(Len(auction_data.items)) :
            ParseAll(EmptyDict, [k \in 1..Len(auction_data.items) |-> auction_data.items[f[k]]])
                = parsed_auctions

\* C5 witness: the call returned for two different listings that share a bucket.
C5_Witness ==
    /\ pc = "returned"
    /\ Len(placed) = 2
    /\ BothPlaced(1, 2)
    /\ placed[1] = placed[2]
    /\ auction_data.items[1] # auction_data.items[2]

\* C6: when a listing of the input has no item id, the call does not return a
\* mapping.
C6_MissingIdFails ==
    (\E k \in 1..Len(auction_data.items) : ~Has(auction_data.items[k].item.id))
        => pc # "returned"

\* the marketvalue loop of main has run to its end
CalcComplete ==
    /\ j = Len(key_order)
    /\ pc \in {"returned", "done"} \/ (pc = "failed" /\ j = Len(calls) /\ i = Len(auction_data.items))

\* C7: data.lua is written only in a run in which the fetch delivered a list,
\* the aggregation consumed all of it and the estimation produced a record for
\* every variant, and then holds all those records; a failed run leaves it
\* untouched.
C7_WriteOnlyAfterAll ==
    /\ file.written =>
           /\ pc = "done"
           /\ error = "none"
           /\ auction_data.is_list
           /\ i = Len(auction_data.items)
           /\ j = Len(key_order)
           /\ file.content = marketvalues
           /\ Len(file.content) = Cardinality(DOMAIN parsed_auctions)
    /\ pc = "failed" => ~file.written /\ error # "none"
    /\ pc = "done" => file.written

\* C7 witness: the estimator failed after a record had been produced, and the
\* file is untouched.
C7_Witness ==
    /\ pc = "failed"
    /\ error = "EstimatorError"
    /\ Len(marketvalues) > 0
    /\ ~file.written

\* C8: marketvalue is never called with an empty histogram nor twice for one
\* variant key, each call gets the histogram of its key, and once the loop has
\* run to its end the keys it was called for are the keys of the mapping; for
\* an empty listing sequence it is never called and no record is produced.
C8_EstimatorOncePerVariant ==
    /\ \A a \in 1..Len(calls) :
           /\ DOMAIN calls[a].histogram # {}
           /\ calls[a].key \in DOMAIN parsed_auctions
           /\ calls[a].histogram = parsed_auctions[calls[a].key]
    /\ \A a, b \in 1..Len(calls) : a # b => calls[a].key # calls[b].key
    /\ CalcComplete =>
           /\ {calls[a].key : a \in 1..Len(calls)} = DOMAIN parsed_auctions
           /\ Len(calls) = Cardinality(DOMAIN parsed_auctions)
    /\ (pc \in {"returned", "done"} /\ auction_data.items = <<>>) =>
           calls = <<>> /\ marketvalues = <<>> /\ file.content = <<>>

\* C8 witness: a run ended after calling marketvalue for two variants.
C8_Witness ==
    /\ pc = "done"
    /\ Len(calls) = 2
    /\ Cardinality(DOMAIN parsed_auctions) = 2

RecordKey(r) == <<r.item>> \o r.bonusIds

\* C9: every record is that of a variant key k of the mapping, with item = k[0]
\* and bonusIds = k[1:], and carries the text of the three values marketvalue
\* returns for k's histogram; once the loop has run to its end every key has
\* exactly one record.
C9_RecordPerVariant ==
    /\ \A a \in 1..Len(marketvalues) :
           LET r == marketvalues[a]
               k == RecordKey(r)
           IN /\ k = key_order[a]
              /\ k \in DOMAIN parsed_auctions
              /\ r.bonusIds = SubSeq(k, 2, Len(k))
              /\ r.marketvalue = <<"str", Marketvalue(parsed_auctions[k]).marketvalue>>
              /\ r.quantity = <<"str", Marketvalue(parsed_auctions[k]).quantity>>
              /\ r.MIN = <<"str", Marketvalue(parsed_auctions[k]).MIN>>
    /\ CalcComplete =>
           \A k \in DOMAIN parsed_auctions :
               Cardinality({a \in 1..Len(marketvalues) : RecordKey(marketvalues[a]) = k}) = 1

\* C9 witness: a run ended with the record of item 100 with bonus ids [1,2].
C9_Witness ==
    /\ pc = "done"
    /\ \E a \in 1..Len(file.content) :
           /\ file.content[a].item = 100
           /\ file.content[a].bonusIds = <<1, 2>>
           /\ file.content[a].quantity = <<"str", <<"int", 6>>>>

\* C10: the dictionary get_item_names returns has an entry under str(item) for
\* every item of the list, and no item whose name was saved is downloaded.
C10_NamesUnderStrKey ==
    /\ pc = "names_returned" =>
           \A k \in 1..Len(items) : PyStr(items[k]) \in DOMAIN item_names_dict
    /\ pc = "names_loop" =>
           \A d \in Range(downloads) : d \notin {saved_items[k].item : k \in 1..Len(saved_items)}

====
